---- MODULE Spec2Model ----
(***************************************************************************)
(* Halftone404Canvas (src/components/Halftone404Canvas.tsx): the hidden    *)
(* <video>, the canvas it is sampled into, the self-rescheduling draw      *)
(* callback, the autoplay retry listeners, the iOS heartbeat and the       *)
(* effect cleanup, as a state machine with one action per browser task.    *)
(***************************************************************************)
EXTENDS Integers, Sequences, FiniteSets, TLC

VARIABLES
    prefersReduced,     \* matchMedia("(prefers-reduced-motion: reduce)").matches
    isIOS,              \* /iPad|iPhone|iPod/.test(navigator.userAgent)
    hasRVFC,            \* typeof v.requestVideoFrameCallback === "function"
    mediaOK,            \* /ghost.mp4 can be fetched and decoded
    phase,              \* "rendered" (effect not yet run), "mounted", "unmounted"
    ready,              \* useState(false)
    videoRef,           \* videoRef.current: NULL or "v"
    drawRef,            \* drawRef.current: "noop" or "draw"
    v_paused,           \* v.paused
    v_readyState,       \* 0 HAVE_NOTHING, 1 HAVE_METADATA, 2 frame data available
    v_error,            \* v.error # null
    v_videoWidth,       \* v.videoWidth
    v_videoHeight,      \* v.videoHeight
    v_currentTime,      \* v.currentTime: 0 at the start, 1 for any later position
    v_src,              \* v.src
    v_inDOM,            \* v.parentNode # null
    canvas_width,       \* canvas.width
    canvas_height,      \* canvas.height
    rafQueue,           \* pending requestAnimationFrame(draw) callbacks
    rvfcQueue,          \* pending v.requestVideoFrameCallback(() => draw()) callbacks
    listeners,          \* registered event listeners <<target, type, handler>>
    heartbeatInterval,  \* period of the active setInterval, 0 when there is none
    lastTime,           \* the heartbeat closure's lastTime, on a clock whose origin
                        \* is the last heartbeat tick (the mount before the first)
    timeouts,           \* pending setTimeout(..., 100) callbacks of onVis
    plays,              \* attemptPlay calls suspended at `await v.play()`, each with
                        \* its caller: "init" (the effect) or "retry" (kick, onVisibleTry)
    docHidden,          \* document.hidden
    drawEver,           \* history: draw has been invoked
    sampledEver,        \* history: a sampling and dot pass has completed
    retrySucceeded,     \* history: an attemptPlay of kick/onVisibleTry returned true
    visibleTried,       \* history: onVisibleTry has called attemptPlay
    last                \* history: what the component did in the last task

\* The dot loop of one draw call, iteration by iteration (see DotSpec).
VARIABLES
    dotPass             \* the canvas size, the grid step, the loop variables x and
                        \* y, the sample points visited so far and the last sample

env == <<prefersReduced, isIOS, hasRVFC, mediaOK>>

\* The logo context menu of the footer (see PlaceSpec, MenuSpec and TouchSpec).
VARIABLES
    menu                \* the state, refs, timers and document listeners of
                        \* useContextMenu, and what the Footer rendered from them

\* The e-mail verification page (see FormSpec).
VARIABLES
    form                \* the state of BetaValidate and the focused input

\* The set-password page (see AccountSpec) and the signup page (see SignupSpec).
VARIABLES
    account,            \* the state of SetPassword
    signup              \* the state of BetaSignup

\* The renderer's own state.
renderer == <<phase, ready, videoRef, drawRef, v_paused, v_readyState, v_error,
              v_videoWidth, v_videoHeight, v_currentTime, v_src, v_inDOM,
              canvas_width, canvas_height, rafQueue, rvfcQueue, listeners,
              heartbeatInterval, lastTime, timeouts, plays, docHidden,
              drawEver, sampledEver, retrySucceeded, visibleTried, last>>

\* What Spec leaves alone: the state of the finer-grained specifications.
detail == <<dotPass, menu, form, account, signup>>

vars == <<prefersReduced, isIOS, hasRVFC, mediaOK, phase, ready, videoRef, drawRef,
          v_paused, v_readyState, v_error, v_videoWidth, v_videoHeight, v_currentTime,
          v_src, v_inDOM, canvas_width, canvas_height, rafQueue, rvfcQueue, listeners,
          heartbeatInterval, lastTime, timeouts, plays, docHidden,
          drawEver, sampledEver, retrySucceeded, visibleTried, last, dotPass, menu, form,
          account, signup>>

\* ---------------------------------------------------------------- bounds
MaxCallbacks == 2
MaxPlays == 2
MaxTimeouts == 1

\* ------------------------------------------------------ program constants
NULL == "null"
grid == 4
HeartbeatMs == 1000
StallMs == 3000
CanvasDefaultWidth == 300
CanvasDefaultHeight == 150
GhostSrc == "/ghost.mp4"
v_loop == TRUE

events == {"pointerdown", "keydown", "wheel", "touchstart"}

\* Intrinsic sizes the video may report, and the gaps between two heartbeat ticks
\* (the interval is throttled while the tab is in the background).
VideoSizes == {<<8, 4>>, <<4, 8>>}
HeartbeatGaps == {HeartbeatMs, StallMs, StallMs + 1}

MetaListeners ==
    {<<"video", "loadedmetadata", "onLoadedMeta">>, <<"video", "loadeddata", "onLoadedMeta">>}
OnVisListener == <<"document", "visibilitychange", "onVis">>
KickListeners == {<<"window", e, "kick">> : e \in events}
OnVisibleTryListener == <<"document", "visibilitychange", "onVisibleTry">>
RetryListeners == KickListeners \cup {OnVisibleTryListener}

\* ---------------------------------------------------------------- state
\* The record of a task: the calls of kick, v.play() and draw, the canvas draw
\* operations, the callbacks draw scheduled and through what, whether draw sampled,
\* what it found when it ran, the gap a heartbeat tick measured, and whether draw
\* resized a canvas that had already been sized to an earlier video size.
Blank ==
    [kicks |-> 0, plays |-> 0, draws |-> 0, ops |-> 0, sched |-> 0, via |-> "none",
     sampled |-> FALSE, dimsOK |-> TRUE, pausedOrEnded |-> FALSE, noFrames |-> FALSE,
     gap |-> 0, resized |-> FALSE]

Cur ==
    [phase |-> phase, ready |-> ready, videoRef |-> videoRef, drawRef |-> drawRef,
     v_paused |-> v_paused, v_readyState |-> v_readyState, v_error |-> v_error,
     v_videoWidth |-> v_videoWidth, v_videoHeight |-> v_videoHeight,
     v_currentTime |-> v_currentTime, v_src |-> v_src, v_inDOM |-> v_inDOM,
     canvas_width |-> canvas_width, canvas_height |-> canvas_height,
     rafQueue |-> rafQueue, rvfcQueue |-> rvfcQueue, listeners |-> listeners,
     heartbeatInterval |-> heartbeatInterval, lastTime |-> lastTime,
     timeouts |-> timeouts, plays |-> plays, docHidden |-> docHidden,
     drawEver |-> drawEver, sampledEver |-> sampledEver,
     retrySucceeded |-> retrySucceeded, visibleTried |-> visibleTried, last |-> last]

Start == [Cur EXCEPT !.last = Blank]

WithinBounds(r) ==
    /\ r.rafQueue + r.rvfcQueue <= MaxCallbacks
    /\ Len(r.plays) <= MaxPlays
    /\ r.timeouts <= MaxTimeouts

Apply(r) ==
    /\ WithinBounds(r)
    /\ \A i \in 1..Len(r.plays) : r.plays[i].st # "failed"
    /\ phase' = r.phase /\ ready' = r.ready /\ videoRef' = r.videoRef
    /\ drawRef' = r.drawRef /\ v_paused' = r.v_paused
    /\ v_readyState' = r.v_readyState /\ v_error' = r.v_error
    /\ v_videoWidth' = r.v_videoWidth /\ v_videoHeight' = r.v_videoHeight
    /\ v_currentTime' = r.v_currentTime /\ v_src' = r.v_src /\ v_inDOM' = r.v_inDOM
    /\ canvas_width' = r.canvas_width /\ canvas_height' = r.canvas_height
    /\ rafQueue' = r.rafQueue /\ rvfcQueue' = r.rvfcQueue /\ listeners' = r.listeners
    /\ heartbeatInterval' = r.heartbeatInterval /\ lastTime' = r.lastTime
    /\ timeouts' = r.timeouts /\ plays' = r.plays /\ docHidden' = r.docHidden
    /\ drawEver' = r.drawEver /\ sampledEver' = r.sampledEver
    /\ retrySucceeded' = r.retrySucceeded /\ visibleTried' = r.visibleTried
    /\ last' = r.last
    /\ UNCHANGED env
    /\ UNCHANGED detail

\* The component rendered, its effect not yet run.
Rendered ==
    /\ phase = "rendered" /\ ready = FALSE /\ videoRef = NULL /\ drawRef = "noop"
    /\ v_paused = TRUE /\ v_readyState = 0 /\ v_error = FALSE
    /\ v_videoWidth = 0 /\ v_videoHeight = 0 /\ v_currentTime = 0
    /\ v_src = "" /\ v_inDOM = FALSE
    /\ canvas_width = CanvasDefaultWidth /\ canvas_height = CanvasDefaultHeight
    /\ rafQueue = 0 /\ rvfcQueue = 0 /\ listeners = {}
    /\ heartbeatInterval = 0 /\ lastTime = 0 /\ timeouts = 0 /\ plays = <<>>
    /\ docHidden = FALSE
    /\ drawEver = FALSE /\ sampledEver = FALSE /\ retrySucceeded = FALSE
    /\ visibleTried = FALSE
    /\ last = Blank

\* No draw call is inside its dot loop.
NoPass == [pc |-> "idle"]

\* The verification page is not open.
NoPage == [mounted |-> FALSE]

\* No footer is on the page.
NoFooter == [mounted |-> FALSE]

Init ==
    /\ prefersReduced \in BOOLEAN /\ isIOS \in BOOLEAN
    /\ hasRVFC \in BOOLEAN /\ mediaOK \in BOOLEAN
    /\ Rendered
    /\ dotPass = NoPass
    /\ menu = NoFooter
    /\ form = NoPage
    /\ account = NoPage
    /\ signup = NoPage

\* The renderer as the finer-grained specifications leave it: rendered, its
\* effect not yet run.
RendererIdle ==
    /\ prefersReduced = FALSE /\ isIOS = FALSE /\ hasRVFC = FALSE /\ mediaOK = TRUE
    /\ Rendered

\* ------------------------------------------------------- the video element
\* v.ended: playback ran to the end and the loop attribute is not set.
v_ended(s) == (~v_loop) /\ s.v_currentTime # 0

\* The video is presenting frames: this is when the browser resolves play()
\* promises and runs video-frame callbacks.
Playing(s) == (~s.v_paused) /\ s.v_readyState = 2 /\ s.v_src = GhostSrc

\* Whether a v.play() call may be let through: a known media error rejects it at
\* once; otherwise the autoplay policy decides (either outcome).
PlayOutcomes(s) == IF s.v_error THEN {FALSE} ELSE BOOLEAN

\* v.play(): when let through, paused becomes false before the promise settles.
play(s, allowed) ==
    [s EXCEPT !.v_paused = IF allowed THEN FALSE ELSE @, !.last.plays = @ + 1]

\* The browser queues one task that rejects every pending play() promise.
RejectAll(ps) == [i \in 1..Len(ps) |-> [ps[i] EXCEPT !.st = "aborted"]]

\* v.pause(): the pending play() promises are rejected (in a queued task).
pause(s) == [s EXCEPT !.v_paused = TRUE, !.plays = RejectAll(@)]

\* v.src = ""; v.load(): the element is reset to HAVE_NOTHING.
unload(s) ==
    [s EXCEPT !.v_src = "", !.v_readyState = 0, !.v_error = FALSE, !.v_paused = TRUE,
              !.v_videoWidth = 0, !.v_videoHeight = 0, !.v_currentTime = 0,
              !.plays = RejectAll(@)]

\* ------------------------------------------------------------ sizeToVideo
sizeToVideo(s) ==
    IF s.v_videoWidth # 0 /\ s.v_videoHeight # 0
    THEN [s EXCEPT !.canvas_width = s.v_videoWidth, !.canvas_height = s.v_videoHeight]
    ELSE s

\* ------------------------------------------------------------------- draw
requestAnimationFrame(s) ==
    [s EXCEPT !.rafQueue = @ + 1, !.last.sched = @ + 1, !.last.via = "raf"]

requestVideoFrameCallback(s) ==
    [s EXCEPT !.rvfcQueue = @ + 1, !.last.sched = @ + 1, !.last.via = "rvfc"]

\* Mutant of drawSkips: the videoRef.current test is left out.
drawSkips_noRefTest(s) == s.v_paused \/ v_ended(s)

\* if (!videoRef.current || v.paused || v.ended)
drawSkips(s) == s.videoRef = NULL \/ s.v_paused \/ v_ended(s)

\* Mutant of drawResize: draw never compares the canvas with the video.
drawResize_never(s) == s

\* if (canvas.width !== v.videoWidth || canvas.height !== v.videoHeight) sizeToVideo()
drawResize(s) ==
    IF s.canvas_width # s.v_videoWidth \/ s.canvas_height # s.v_videoHeight
    THEN [sizeToVideo(s) EXCEPT
             !.last.resized = <<s.canvas_width, s.canvas_height>> \in VideoSizes]
    ELSE s

\* drawImage, getImageData, fillRect and the dot loop. ops counts the canvas
\* draw operations (drawImage and fillRect; the dots come on top).
drawSample(s) ==
    [s EXCEPT !.last.ops = @ + 2, !.last.sampled = TRUE,
              !.last.dimsOK = (s.canvas_width = s.v_videoWidth
                               /\ s.canvas_height = s.v_videoHeight),
              !.sampledEver = TRUE]

\* Mutant of drawReschedule: the frame callback of the video is never used.
drawReschedule_rafOnly(s) == requestAnimationFrame(s)

drawReschedule(s) ==
    IF hasRVFC THEN requestVideoFrameCallback(s) ELSE requestAnimationFrame(s)

draw(s) ==
    LET s0 == [s EXCEPT !.drawEver = TRUE, !.last.draws = @ + 1,
                        !.last.pausedOrEnded = s.v_paused \/ v_ended(s),
                        !.last.noFrames = s.v_readyState < 2]
    IN  IF drawSkips(s0)
        THEN requestAnimationFrame(s0)
        ELSE drawReschedule(drawSample(drawResize(s0)))

\* drawRef.current()
callDrawRef(s) == IF s.drawRef = "draw" THEN draw(s) ELSE s

\* ------------------------------------------------------------ attemptPlay
\* setReady: a state update of an unmounted component is dropped.
setReady(s, b) == IF s.phase = "mounted" THEN [s EXCEPT !.ready = b] ELSE s

\* attemptPlay up to `await v.play()`. A call that is not let through returns a
\* promise that is already rejected ("failed"): its continuation runs at the end
\* of the current task.
attemptPlay(s, owner, allowed) ==
    LET s1 == play(sizeToVideo(s), allowed)
    IN  [s1 EXCEPT !.plays = Append(@, [owner |-> owner,
                                        st |-> IF allowed THEN "pending" ELSE "failed"])]

\* Mutant of attemptPlayResume: setReady(true) also runs when play() rejected.
attemptPlayResume_readyAlways(s, ok) ==
    IF ok THEN callDrawRef(setReady(s, TRUE)) ELSE setReady(s, TRUE)

\* attemptPlay after the await: the try branch, or the catch.
attemptPlayResume(s, ok) == IF ok THEN callDrawRef(setReady(s, TRUE)) ELSE s

\* Mutant of detach: the visibilitychange listener is left registered.
detach_windowOnly(s) == [s EXCEPT !.listeners = @ \ KickListeners]

detach(s) == [s EXCEPT !.listeners = @ \ RetryListeners]

\* attemptPlay().then((ok) => { if (ok) return; ... addEventListener ... })
thenRetry(s, ok) == IF ok THEN s ELSE [s EXCEPT !.listeners = @ \cup RetryListeners]

\* kick / onVisibleTry after their await: if (await attemptPlay()) detach()
kickResume(s, ok) ==
    IF ok THEN [detach(s) EXCEPT !.retrySucceeded = TRUE] ELSE s

afterAttempt(s, owner, ok) ==
    IF owner = "init" THEN thenRetry(s, ok) ELSE kickResume(s, ok)

\* The continuations of the promises ps that are in state st, in call order.
RECURSIVE settleFrom(_, _, _, _)
settleFrom(s, ps, st, ok) ==
    IF ps = <<>>
    THEN s
    ELSE LET p == Head(ps)
         IN  IF p.st = st
             THEN settleFrom(afterAttempt(attemptPlayResume(s, ok), p.owner, ok),
                             Tail(ps), st, ok)
             ELSE settleFrom(s, Tail(ps), st, ok)

\* Every promise in state st settles (ok: resolved, otherwise rejected).
settle(s, st, ok) ==
    settleFrom([s EXCEPT !.plays = SelectSeq(@, LAMBDA p : p.st # st)], s.plays, st, ok)

\* The microtask checkpoint at the end of a task: the continuations of the
\* promises that were rejected when they were made.
microtasks(s) == settle(s, "failed", FALSE)

\* ------------------------------------------------------------- the effect
\* Mutant of skipRenderer: the reduced-motion early return is missing.
skipRenderer_never == FALSE

\* if (prefersReduced) { setReady(true); return; }
skipRenderer == prefersReduced

\* Date.now() in a task that is not a heartbeat tick: only the heartbeat reads the
\* clock again, and it measures from here.
DateNow == 0

\* The heartbeat: if (isIOS) { lastTime = Date.now(); setInterval(..., 1000) }
startHeartbeat(s) ==
    IF isIOS
    THEN [s EXCEPT !.lastTime = DateNow, !.heartbeatInterval = HeartbeatMs]
    ELSE s

\* The body of useEffect(..., [prefersReduced, isIOS]).
effect(s, allowed) ==
    LET m == [s EXCEPT !.phase = "mounted"]
    IN  IF skipRenderer
        THEN setReady(m, TRUE)
        ELSE LET s1 == [m EXCEPT !.videoRef = "v", !.v_inDOM = TRUE, !.drawRef = "draw",
                                 !.listeners = @ \cup MetaListeners, !.v_src = GhostSrc]
                 s2 == attemptPlay(s1, "init", allowed)
                 s3 == startHeartbeat(s2)
             IN  [s3 EXCEPT !.listeners = @ \cup {OnVisListener}]

\* The function the effect returns.
cleanup(s) ==
    LET s1 == [s EXCEPT !.heartbeatInterval = 0,
                        !.listeners = (@ \ {OnVisListener}) \ MetaListeners]
        s2 == unload(pause(s1))
    IN  [s2 EXCEPT !.v_inDOM = FALSE, !.videoRef = NULL]

\* Unmounting runs the cleanup when the effect returned one.
unmount(s) ==
    LET u == [s EXCEPT !.phase = "unmounted"]
    IN  IF skipRenderer THEN u ELSE cleanup(u)

\* onLoadedMeta, when it is registered for the event.
onLoadedMeta(s, type) ==
    IF <<"video", type, "onLoadedMeta">> \in s.listeners THEN sizeToVideo(s) ELSE s

\* kick up to its await.
kick(s, allowed) == attemptPlay([s EXCEPT !.last.kicks = @ + 1], "retry", allowed)

\* onVis: if (!document.hidden && isIOS) setTimeout(..., 100)
onVis(s) ==
    IF OnVisListener \in s.listeners /\ ~s.docHidden /\ isIOS
    THEN [s EXCEPT !.timeouts = @ + 1]
    ELSE s

\* onVisibleTry up to its await.
onVisibleTry(s, allowed) ==
    IF OnVisibleTryListener \in s.listeners /\ ~s.docHidden
    THEN attemptPlay([s EXCEPT !.visibleTried = TRUE], "retry", allowed)
    ELSE s

\* The setTimeout callback of onVis.
onVisTimeout(s, allowed) ==
    callDrawRef(play([s EXCEPT !.timeouts = @ - 1], allowed))

\* Mutant of heartbeat: the gap test is >= instead of >.
heartbeat_atThreshold(s, gap, allowed) ==
    LET currentTime == DateNow + gap
        s0 == [s EXCEPT !.last.gap = gap]
        s1 == IF currentTime - s0.lastTime >= StallMs
              THEN callDrawRef(play([s0 EXCEPT !.v_currentTime = 0], allowed))
              ELSE s0
    IN  [s1 EXCEPT !.lastTime = currentTime]

\* The setInterval callback; gap is the time since the previous tick.
heartbeat(s, gap, allowed) ==
    LET currentTime == DateNow + gap
        s0 == [s EXCEPT !.last.gap = gap]
        s1 == IF currentTime - s0.lastTime > StallMs
              THEN callDrawRef(play([s0 EXCEPT !.v_currentTime = 0], allowed))
              ELSE s0
    IN  [s1 EXCEPT !.lastTime = currentTime]

\* The clock's origin moves to t.
newOrigin(s, t) == [s EXCEPT !.lastTime = @ - t]

\* ---------------------------------------------------------------- actions
Mount ==
    /\ phase = "rendered"
    /\ \E allowed \in PlayOutcomes(Cur) : Apply(microtasks(effect(Start, allowed)))

Unmount ==
    /\ phase = "mounted"
    /\ Apply(unmount(Start))

\* The browser fires loadedmetadata: the intrinsic size becomes known.
LoadedMetadata ==
    /\ mediaOK /\ v_src = GhostSrc /\ v_readyState = 0
    /\ \E d \in VideoSizes :
          Apply(onLoadedMeta([Start EXCEPT
                                 !.v_readyState = 1, !.v_videoWidth = d[1],
                                 !.v_videoHeight = d[2]], "loadedmetadata"))

\* The browser fires loadeddata: the first frame is available.
LoadedData ==
    /\ mediaOK /\ v_src = GhostSrc /\ v_readyState = 1
    /\ Apply(onLoadedMeta([Start EXCEPT !.v_readyState = 2], "loadeddata"))

\* The intrinsic size changes during playback (no listener is registered for it).
VideoResize ==
    /\ v_src = GhostSrc /\ v_readyState = 2
    /\ \E d \in VideoSizes \ {<<v_videoWidth, v_videoHeight>>} :
          Apply([Start EXCEPT !.v_videoWidth = d[1], !.v_videoHeight = d[2]])

\* Playback advances; with the loop attribute the position wraps to the start.
VideoAdvance ==
    /\ Playing(Cur)
    /\ \E pos \in {0, 1} :
          /\ pos = 0 => v_loop /\ v_currentTime # 0
          /\ Apply([Start EXCEPT !.v_currentTime = pos])

\* The fetch or the decoding of the media fails.
MediaError ==
    /\ ~mediaOK /\ v_src = GhostSrc /\ ~v_error
    /\ Apply([Start EXCEPT !.v_error = TRUE, !.plays = RejectAll(@)])

\* The platform pauses the video (a background tab, a media key).
BrowserPause ==
    /\ phase = "mounted" /\ videoRef # NULL /\ ~v_paused
    /\ Apply(pause(Start))

\* Playback has begun: the browser resolves the pending play() promises in one
\* task, and each attemptPlay continues after its await.
PlayResolve ==
    /\ mediaOK /\ Playing(Cur)
    /\ \E i \in 1..Len(plays) : plays[i].st = "pending"
    /\ Apply(settle(Start, "pending", TRUE))

\* The queued task rejects the play() promises (after pause(), load() or a media
\* error; with src = "" every promise ends rejected), and each attemptPlay
\* continues in its catch.
PlayReject ==
    /\ \E i \in 1..Len(plays) : plays[i].st = "aborted" \/ v_src = ""
    /\ Apply(settle([Start EXCEPT
                        !.plays = IF v_src = "" THEN RejectAll(@) ELSE @],
                    "aborted", FALSE))

\* A pointerdown, keydown, wheel or touchstart event on window that a listener
\* is registered for.
Interaction ==
    /\ KickListeners \cap listeners # {}
    /\ \E allowed \in PlayOutcomes(Cur) : Apply(microtasks(kick(Start, allowed)))

\* A visibilitychange event on document; listeners run in registration order.
VisibilityChange ==
    /\ phase # "rendered"
    /\ \E allowed \in PlayOutcomes(Cur) :
          Apply(microtasks(onVisibleTry(onVis([Start EXCEPT
                                                  !.docHidden = ~@]), allowed)))

\* The 100 ms timer of onVis fires.
VisibleTimeout ==
    /\ timeouts > 0
    /\ \E allowed \in PlayOutcomes(Cur) :
          Apply(onVisTimeout(Start, allowed))

\* The heartbeat interval fires.
Heartbeat ==
    /\ heartbeatInterval # 0
    /\ \E gap \in HeartbeatGaps : \E allowed \in PlayOutcomes(Cur) :
          Apply(newOrigin(heartbeat(Start, gap, allowed), DateNow + gap))

\* A requestAnimationFrame callback runs draw.
AnimationFrame ==
    /\ rafQueue > 0
    /\ Apply(draw([Start EXCEPT !.rafQueue = @ - 1]))

\* A requestVideoFrameCallback callback runs draw: a new frame was presented.
VideoFrame ==
    /\ rvfcQueue > 0 /\ Playing(Cur)
    /\ Apply(draw([Start EXCEPT !.rvfcQueue = @ - 1]))

Next ==
    \/ Mount
    \/ Unmount
    \/ LoadedMetadata
    \/ LoadedData
    \/ VideoResize
    \/ VideoAdvance
    \/ MediaError
    \/ BrowserPause
    \/ PlayResolve
    \/ PlayReject
    \/ Interaction
    \/ VisibilityChange
    \/ VisibleTimeout
    \/ Heartbeat
    \/ AnimationFrame
    \/ VideoFrame

Spec == Init /\ [][Next]_vars

\* ------------------------------------------------------------ the dot loop
\* One sampling pass of draw, from the fillRect that clears the canvas to the
\* end of the two nested loops, one action per iteration of the inner loop. The
\* source fixes the step (grid); the pass is modelled for every step in
\* GridSteps because the radius is claimed for every step of 2 or more.
MaxDim == 16
MaxGrid == 5

GridSteps == 2..MaxGrid
Black == <<0, 0, 0>>
White == <<255, 255, 255>>
\* The colours a sampled pixel may have: black, white, the two greys on either
\* side of the dot threshold of step 4, a mid grey and a saturated colour.
Pixels == {Black, White, <<175, 175, 175>>, <<176, 175, 175>>, <<128, 128, 128>>,
           <<255, 0, 0>>}

\* frame.data.length of getImageData(0, 0, W, H): four bytes per pixel.
dataLength(W, H) == W * H * 4

\* const i = (y * canvas.width + x) * 4
bufferIndex(x, y, W) == (y * W + x) * 4

\* data[i], data[i + 1] and data[i + 2] are bytes of the buffer (a read outside
\* it would give undefined).
inBuffer(i, W, H) == i >= 0 /\ i + 2 < dataLength(W, H)

\* The radius as an exact fraction radiusNum / RadiusDen:
\*   avg = (R + G + B) / 3;  r = (1 - avg / 255) * (grid / 2.5)
\*       = (765 - (R + G + B)) * 2 * grid / 3825
\* (the double arithmetic of the source is exact at black and at white, and is
\* off the threshold 0.5 by more than 0.0005 at every byte triple for the
\* steps of GridSteps, so rounding never decides the comparison).
ChannelSum == 765
RadiusDen == 3825

\* Mutant of radiusNum: darkness and brightness are swapped (avg / 255 in
\* place of 1 - avg / 255).
radiusNum_inverted(p, G) == (p[1] + p[2] + p[3]) * 2 * G

radiusNum(p, G) == (ChannelSum - (p[1] + p[2] + p[3])) * 2 * G

\* Mutant of drawsDot: the threshold is 1 instead of 0.5.
drawsDot_aboveOne(rNum) == rNum > RadiusDen

\* if (r > 0.5)
drawsDot(rNum) == 2 * rNum > RadiusDen

\* Mutant of loopTest: the loop runs while the variable is <= the limit.
loopTest_inclusive(v, limit) == v <= limit

\* y < canvas.height, x < canvas.width
loopTest(v, limit) == v < limit

\* for (let y = 0; ...) for (let x = 0; ...): the loop variables before the
\* first test; px, rNum and arc are the last sample's pixel, its radius and the
\* ctx.arc(x, y, r, ...) it led to (<<>> for none).
passStart(W, H, G) ==
    [pc |-> IF loopTest(0, H) /\ loopTest(0, W) THEN "body" ELSE "done",
     W |-> W, H |-> H, G |-> G, x |-> 0, y |-> 0,
     visited |-> <<>>, inside |-> TRUE,
     px |-> <<>>, rNum |-> 0, arc |-> <<>>]

\* The body of the inner loop at (x, y) for a pixel of colour p, then x += grid
\* and the tests that lead to the next body: the inner one, and when it fails
\* y += grid, the outer test and the inner loop's restart at x = 0.
dotIteration(d, p) ==
    LET i == bufferIndex(d.x, d.y, d.W)
        rNum == radiusNum(p, d.G)
        x1 == d.x + d.G
        y1 == d.y + d.G
        sampled == [d EXCEPT !.visited = Append(@, <<d.x, d.y>>),
                             !.inside = @ /\ inBuffer(i, d.W, d.H),
                             !.px = p, !.rNum = rNum,
                             !.arc = IF drawsDot(rNum) THEN <<d.x, d.y, rNum>>
                                     ELSE <<>>]
    IN  IF loopTest(x1, d.W)
        THEN [sampled EXCEPT !.x = x1]
        ELSE IF loopTest(y1, d.H) /\ loopTest(0, d.W)
             THEN [sampled EXCEPT !.x = 0, !.y = y1]
             ELSE [sampled EXCEPT !.x = 0, !.y = y1, !.pc = "done"]

DotInit ==
    /\ RendererIdle
    /\ form = NoPage
    /\ account = NoPage
    /\ signup = NoPage
    /\ menu = NoFooter
    /\ \E W \in 1..MaxDim, H \in 1..MaxDim, G \in GridSteps :
          dotPass = passStart(W, H, G)

DotIteration ==
    /\ dotPass.pc = "body"
    /\ \E p \in Pixels : dotPass' = dotIteration(dotPass, p)
    /\ UNCHANGED <<env, renderer, menu, form, account, signup>>

DotNext == DotIteration

DotSpec == DotInit /\ [][DotNext]_vars

\* ------------------------------------------------- the logo context menu
\* useContextMenu (src/hooks/useContextMenu.ts) as the Footer uses it: the
\* hook's state and refs, the timers and document listeners it holds, and the
\* focused element. A handler's state updates are rendered, and the effect of
\* [showMenu, closeMenu] is run, before the next event is handled.
MenuWidth == 180
MenuHeight == 104
Padding == 16
MoveTolerance == 10
LogoSize == 24

Max(a, b) == IF a >= b THEN a ELSE b
Min(a, b) == IF a <= b THEN a ELSE b
Abs(a) == IF a >= 0 THEN a ELSE 0 - a

DocListeners == {"mousedown", "touchstart", "keydown"}
MenuItems == <<"first", "last">>
NavKeys == {"ArrowDown", "ArrowUp", "Home", "End", "Tab"}

\* What one event did: the event, the calls of openMenuAt and closeMenu, whether
\* an error left handleCopyLogoAsSVG, and the finished copySVGToClipboard call.
NoCopy == [done |-> FALSE, tried |-> <<>>, failed |-> {}, threw |-> FALSE]

NoEvent ==
    [input |-> "none", key |-> "", shift |-> FALSE, inside |-> FALSE,
     opens |-> 0, closes |-> 0, escaped |-> FALSE, copy |-> NoCopy]

\* The Footer after its first render in a window of vw x vh with the logo's
\* bounding rectangle at (left, top) and the ClipboardItem API present or not.
footerMounted(vw, vh, left, top, item) ==
    [mounted |-> TRUE, vw |-> vw, vh |-> vh, left |-> left, top |-> top,
     clipboardItem |-> item,
     showMenu |-> FALSE, menuPosition |-> <<0, 0>>, pending |-> NULL,
     docListeners |-> {}, focus |-> "body", focusFrames |-> 0,
     copyTimers |-> 0, assetTimers |-> 0, copies |-> <<>>,
     longPressRef |-> 0, touches |-> <<>>,
     ev |-> NoEvent]

\* el.focus(): the trigger is always rendered; a menu item is rendered while
\* showMenu is true and takes focus unless it is disabled (pending !== null).
focus(m, el) ==
    IF el = "trigger"
    THEN IF m.mounted THEN [m EXCEPT !.focus = "trigger"] ELSE m
    ELSE IF m.mounted /\ m.showMenu /\ m.pending = NULL
         THEN [m EXCEPT !.focus = el]
         ELSE m

\* Mutant of clamp: the upper limit is applied last, Math.min(limit, Math.max(..)).
clamp_upperLast(v, limit) == Min(limit, Max(Padding, v))

\* Math.max(padding, Math.min(v, limit))
clamp(v, limit) == Max(Padding, Min(v, limit))

openMenuAt(m, x, y) ==
    IF ~m.mounted THEN m
    ELSE [m EXCEPT !.menuPosition = <<clamp(x, m.vw - MenuWidth - Padding),
                                      clamp(y, m.vh - MenuHeight - Padding)>>,
                   !.showMenu = TRUE, !.ev.opens = @ + 1]

\* Mutant of closeMenu: pending is left as it is.
closeMenu_keepPending(m) ==
    focus([m EXCEPT !.showMenu = IF m.mounted THEN FALSE ELSE @,
                    !.ev.closes = @ + 1], "trigger")

closeMenu(m) ==
    focus([m EXCEPT !.showMenu = IF m.mounted THEN FALSE ELSE @,
                    !.pending = IF m.mounted THEN NULL ELSE @,
                    !.ev.closes = @ + 1], "trigger")

\* useEffect(..., [showMenu, closeMenu]) after a render in which showMenu changed:
\* the cleanup of the previous run, then the listeners and the focus frame.
menuEffect(old, new) ==
    IF new.showMenu /\ ~old.showMenu
    THEN [new EXCEPT !.docListeners = DocListeners, !.focusFrames = @ + 1]
    ELSE IF ~new.showMenu /\ old.showMenu
         THEN [new EXCEPT !.docListeners = {}]
         ELSE new

\* The render that follows a handler: the menu and its items are in the page while
\* showMenu is true; an item that held focus and is removed, or (fixup) becomes
\* disabled while it stays in the page, gives the focus to the body. Browsers that
\* do not apply the fixup leave the disabled item as the active element.
render(old, new, fixup) ==
    LET r == menuEffect(old, new)
    IN  IF r.focus \in {"first", "last"}
           /\ (~r.showMenu \/ (fixup /\ r.pending # NULL))
        THEN [r EXCEPT !.focus = "body"]
        ELSE r

\* onDocPointer / onDocTouch: inside is menuRef.current.contains(event.target)
onDocPointer(m, inside) == IF m.showMenu /\ ~inside THEN closeMenu(m) ELSE m

itemIndex(m) ==
    IF m.focus = "first" THEN 0 ELSE IF m.focus = "last" THEN 1 ELSE 0 - 1

\* list is the two role='menuitem' buttons, disabled or not; idx is -1 when the
\* active element is neither.
onKey(m, key, shift) ==
    LET len == Len(MenuItems)
        idx == itemIndex(m)
    IN  CASE key = "Escape" -> closeMenu(m)
          [] key = "ArrowDown" -> focus(m, MenuItems[((idx + 1 + len) % len) + 1])
          [] key = "ArrowUp" -> focus(m, MenuItems[((idx - 1 + len) % len) + 1])
          [] key = "Home" -> focus(m, MenuItems[1])
          [] key = "End" -> focus(m, MenuItems[len])
          [] key = "Tab" /\ shift ->
                focus(m, IF m.focus = "first" THEN "last"
                         ELSE MenuItems[Max(idx - 1, 0) + 1])
          [] key = "Tab" /\ ~shift ->
                focus(m, IF m.focus = "last" THEN "first"
                         ELSE MenuItems[Min(idx + 1, len - 1) + 1])
          [] OTHER -> m

\* requestAnimationFrame(() => firstItemRef.current?.focus())
focusFrame(m) == focus([m EXCEPT !.focusFrames = @ - 1], "first")

handleLogoRightClick(m, x, y) == openMenuAt(m, x, y)

\* ContextMenu or Shift+F10 on the logo: below the middle of its rectangle.
handleLogoKeyDown(m, key, shift) ==
    IF key = "ContextMenu" \/ (shift /\ key = "F10")
    THEN openMenuAt(m, m.left + LogoSize \div 2, m.top + LogoSize)
    ELSE m

\* ---- handleCopyLogoAsSVG and copySVGToClipboard, one step per await
\* A call in flight: the await it is suspended at, and what copySVGToClipboard has
\* tried and seen fail so far.
copyCall(stage) == [stage |-> stage, tried |-> <<>>, failed |-> {}]

\* What the awaited promise of a stage can do: fetch resolves with res.ok, with
\* !res.ok, or rejects; res.text() resolves with or without '<svg', or rejects; a
\* clipboard write resolves or rejects.
Outcomes(stage) ==
    IF stage \in {"fetch", "text"} THEN {"ok", "bad", "rejected"} ELSE {"ok", "rejected"}

handleCopyLogoAsSVG(m) ==
    [m EXCEPT !.pending = "copy-svg", !.copies = Append(@, copyCall("fetch"))]

RemoveAt(seq, k) == SubSeq(seq, 1, k - 1) \o SubSeq(seq, k + 1, Len(seq))

\* finally { setTimeout(() => { setPending(null); closeMenu(); }, 900) }
copyFinally(m, k) ==
    [m EXCEPT !.copies = RemoveAt(@, k), !.copyTimers = @ + 1]

\* catch (error) { try { await navigator.clipboard.writeText('Failed ...') } ... }
copyCatch(m, k) == [m EXCEPT !.copies[k].stage = "fallback"]

\* Mutant of copyFallbackDone: the inner try has no catch.
copyFallbackDone_rethrows(m, k, outcome) ==
    copyFinally([m EXCEPT !.ev.escaped = (outcome = "rejected")], k)

\* catch (clipboardError) { console.error(...) }, then the finally block
copyFallbackDone(m, k, outcome) == copyFinally(m, k)

\* copySVGToClipboard returns or throws: the handler goes on to finally or catch.
copySVGDone(m, k, threw) ==
    LET c == m.copies[k]
        m1 == [m EXCEPT !.ev.copy = [done |-> TRUE, tried |-> c.tried,
                                     failed |-> c.failed, threw |-> threw]]
    IN  IF threw THEN copyCatch(m1, k) ELSE copyFinally(m1, k)

\* The second try of copySVGToClipboard: await navigator.clipboard.writeText(svgText)
copyWriteText(m, k) ==
    [m EXCEPT !.copies[k].stage = "writeText", !.copies[k].tried = Append(@, "writeText")]

\* The first try: 'ClipboardItem' in window && navigator.clipboard?.write
copySVGToClipboard(m, k) ==
    IF m.clipboardItem
    THEN [m EXCEPT !.copies[k].stage = "write", !.copies[k].tried = Append(@, "write")]
    ELSE copyWriteText(m, k)

\* The call suspended at copies[k] resumes with the outcome of its await.
copyResume(m, k, outcome) ==
    LET stage == m.copies[k].stage
    IN  CASE stage = "fetch" ->
                IF outcome = "ok" THEN [m EXCEPT !.copies[k].stage = "text"]
                ELSE copyCatch(m, k)
          [] stage = "text" ->
                IF outcome = "ok" THEN copySVGToClipboard(m, k) ELSE copyCatch(m, k)
          [] stage = "write" ->
                IF outcome = "ok" THEN copySVGDone(m, k, FALSE)
                ELSE copyWriteText([m EXCEPT !.copies[k].failed = @ \cup {"write"}], k)
          [] stage = "writeText" ->
                IF outcome = "ok" THEN copySVGDone(m, k, FALSE)
                ELSE copySVGDone([m EXCEPT !.copies[k].failed = @ \cup {"writeText"}],
                                 k, TRUE)
          [] stage = "fallback" -> copyFallbackDone(m, k, outcome)

\* setTimeout(() => { setPending(null); closeMenu(); }, ...)
closeTimer(m) == closeMenu([m EXCEPT !.pending = IF m.mounted THEN NULL ELSE @])

handleBrandAssets(m) ==
    [m EXCEPT !.pending = "brand-assets", !.assetTimers = @ + 1]

\* ---- long press
\* A touch on the logo: where it started and is now, whether the finger is down,
\* whether it has ever been more than MoveTolerance from its start on either
\* axis, the timer its touchstart armed ("pending", "cleared", "fired") and the
\* point the callback closed over, whether 500 ms have passed since it started,
\* whether the finger was then still down and had not moved away, and whether
\* its timer opened the menu.
newTouch(p, at) ==
    [start |-> p, pos |-> p, down |-> TRUE, moved |-> FALSE,
     timer |-> "pending", at |-> at,
     elapsed |-> FALSE, held |-> FALSE, opened |-> FALSE]

far(p, q) == Abs(p[1] - q[1]) > MoveTolerance \/ Abs(p[2] - q[2]) > MoveTolerance

logoCentre(m) == <<m.left + LogoSize \div 2, m.top + LogoSize \div 2>>

\* e.touches[0]: the oldest touch that is still on the screen
firstTouch(ts) ==
    ts[CHOOSE k \in 1..Len(ts) : ts[k].down /\ \A j \in 1..(k - 1) : ~ts[j].down]

\* clearTimeout of a timer that has fired does nothing.
clearLongPress(m) ==
    IF m.longPressRef # 0
    THEN [m EXCEPT !.touches[m.longPressRef].timer =
                        IF @ = "pending" THEN "cleared" ELSE @,
                   !.longPressRef = 0]
    ELSE m

\* The touch at p has been added to e.touches; the new timer's id replaces the
\* ref, whatever it held.
handleTouchStart(m, p) ==
    LET ts == Append(m.touches, newTouch(p, p))
        at == firstTouch(ts).pos
    IN  [m EXCEPT !.touches = Append(m.touches, newTouch(p, at)),
                  !.longPressRef = Len(ts)]

\* Touch k has moved to p.
handleTouchMove(m, k, p) ==
    LET m1 == [m EXCEPT !.touches[k].pos = p,
                        !.touches[k].moved = @ \/ far(p, m.touches[k].start)]
    IN  IF m1.longPressRef # 0 /\ far(firstTouch(m1.touches).pos, logoCentre(m1))
        THEN clearLongPress(m1)
        ELSE m1

\* onTouchEnd={clearLongPress}: touch k has left the screen.
handleTouchEnd(m, k) == clearLongPress([m EXCEPT !.touches[k].down = FALSE])

\* 500 ms after touch k started: its timer, if still pending, runs its callback.
longPressElapsed(m, k) ==
    LET t == m.touches[k]
        m1 == [m EXCEPT !.touches[k].elapsed = TRUE,
                        !.touches[k].held = t.down /\ ~t.moved]
    IN  IF t.timer = "pending"
        THEN openMenuAt([m1 EXCEPT !.touches[k].timer = "fired",
                                   !.touches[k].opened = TRUE], t.at[1], t.at[2])
        ELSE m1

\* The Footer leaves the page: the effect cleanups run and the state is dropped;
\* the timers of the copy and download handlers are not cleared.
footerUnmount(m) ==
    LET m1 == clearLongPress(m)
    IN  [m1 EXCEPT !.mounted = FALSE, !.showMenu = FALSE, !.pending = NULL,
                   !.docListeners = {},
                   !.focus = IF @ = "trigger" THEN "body" ELSE @]

\* ---- events
MaxFrames == 1
MaxMenuTimers == 1
MaxCopies == 1
MaxTouches == 2
MaxSlack == 3

Keys == NavKeys \cup {"Escape", "ContextMenu", "F10", "a"}

\* Window sizes around the smallest one that has room for the menu and its
\* padding on both sides, and the logo centred in the footer (mx-auto) at the
\* bottom of the window.
FitWidth == MenuWidth + 2 * Padding
FitHeight == MenuHeight + 2 * Padding
PlaceViewports ==
    ((FitWidth - MaxSlack)..(FitWidth + MaxSlack))
        \X ((FitHeight - MaxSlack)..(FitHeight + MaxSlack))
MenuViewports == {<<FitWidth + 2 * LogoSize, FitHeight + 2 * LogoSize>>}

placeCoords(size) == (0..(Padding + 2 * MaxSlack + 1)) \cup {size}

footerIn(vp, item) ==
    footerMounted(vp[1], vp[2], (vp[1] - LogoSize) \div 2, vp[2] - LogoSize, item)

\* Points of the logo for the pointer, and offsets from its centre for a touch
\* that starts and for one that moves.
logoPoints(m) == {<<m.left, m.top>>, <<m.left + LogoSize - 1, m.top + LogoSize - 1>>}
StartOffsets == {<<0, 0>>, <<11, 0>>, <<-10, 0>>}
MoveOffsets == {<<1, 0>>, <<12, 0>>, <<22, 0>>, <<0, 11>>}
offsetFrom(m, d) == <<logoCentre(m)[1] + d[1], logoCentre(m)[2] + d[2]>>

MenuStart(input, key, shift, inside) ==
    [menu EXCEPT !.ev = [NoEvent EXCEPT !.input = input, !.key = key,
                                        !.shift = shift, !.inside = inside]]

MenuWithinBounds(m) ==
    /\ m.focusFrames <= MaxFrames
    /\ m.copyTimers + m.assetTimers <= MaxMenuTimers
    /\ Len(m.copies) <= MaxCopies
    /\ Len(m.touches) <= MaxTouches

MenuApply(m, fixup) ==
    /\ MenuWithinBounds(m)
    /\ menu' = render(menu, m, fixup)
    /\ UNCHANGED <<env, renderer, dotPass, form, account, signup>>

PlaceInit ==
    /\ RendererIdle
    /\ form = NoPage
    /\ account = NoPage
    /\ signup = NoPage
    /\ dotPass = NoPass
    /\ \E vp \in PlaceViewports : menu = footerIn(vp, TRUE)

MenuInit ==
    /\ RendererIdle
    /\ form = NoPage
    /\ account = NoPage
    /\ signup = NoPage
    /\ dotPass = NoPass
    /\ \E vp \in MenuViewports, item \in BOOLEAN : menu = footerIn(vp, item)

\* contextmenu on the logo wherever the logo is in the window: the coordinates
\* up to and around the two limits of clamp, and the far edge of the window
PlaceRightClick ==
    /\ menu.mounted
    /\ \E x \in placeCoords(menu.vw), y \in placeCoords(menu.vh) :
          MenuApply(handleLogoRightClick(MenuStart("contextmenu", "", FALSE, FALSE),
                                         x, y), TRUE)

\* contextmenu on the logo
LogoRightClick ==
    /\ menu.mounted
    /\ \E p \in logoPoints(menu) :
          MenuApply(handleLogoRightClick(MenuStart("contextmenu", "", FALSE, FALSE),
                                         p[1], p[2]), TRUE)

\* keydown: the logo's onKeyDown when the logo has the focus, then the document
\* listener if this render's effect registered it.
keyDown(m, key, shift) ==
    LET m1 == IF m.focus = "trigger" THEN handleLogoKeyDown(m, key, shift) ELSE m
    IN  IF "keydown" \in m.docListeners THEN onKey(m1, key, shift) ELSE m1

KeyDown ==
    /\ menu.mounted
    /\ \E key \in Keys, shift \in BOOLEAN :
          MenuApply(keyDown(MenuStart("keydown", key, shift, FALSE), key, shift), TRUE)

EscapeKey ==
    /\ menu.mounted
    /\ MenuApply(keyDown(MenuStart("keydown", "Escape", FALSE, FALSE), "Escape", FALSE),
                 TRUE)

\* mousedown in the document, inside the menu (when there is one) or outside it
MouseDown ==
    /\ menu.mounted
    /\ \E inside \in {FALSE, menu.showMenu} :
          LET m == MenuStart("mousedown", "", FALSE, inside)
          IN  MenuApply(IF "mousedown" \in menu.docListeners
                        THEN onDocPointer(m, inside) ELSE m, TRUE)

\* touchstart in the document, not on the logo
TouchStartElsewhere ==
    /\ menu.mounted
    /\ \E inside \in {FALSE, menu.showMenu} :
          LET m == MenuStart("touchstart", "", FALSE, inside)
          IN  MenuApply(IF "touchstart" \in menu.docListeners
                        THEN onDocPointer(m, inside) ELSE m, TRUE)

FocusFrame ==
    /\ menu.focusFrames > 0
    /\ MenuApply(focusFrame(MenuStart("frame", "", FALSE, FALSE)), TRUE)

\* click on the first item; a disabled button gets no click
ClickCopy ==
    /\ menu.mounted /\ menu.showMenu /\ menu.pending = NULL
    /\ \E fixup \in BOOLEAN :
          MenuApply(handleCopyLogoAsSVG(MenuStart("click", "first", FALSE, TRUE)), fixup)

ClickBrandAssets ==
    /\ menu.mounted /\ menu.showMenu /\ menu.pending = NULL
    /\ \E fixup \in BOOLEAN :
          MenuApply(handleBrandAssets(MenuStart("click", "last", FALSE, TRUE)), fixup)

CopyResume ==
    \E k \in 1..Len(menu.copies) :
        \E outcome \in Outcomes(menu.copies[k].stage) :
            MenuApply(copyResume(MenuStart("await", menu.copies[k].stage, FALSE, FALSE),
                                 k, outcome), TRUE)

CopyTimer ==
    /\ menu.copyTimers > 0
    /\ MenuApply(closeTimer([MenuStart("copyTimer", "", FALSE, FALSE)
                                EXCEPT !.copyTimers = @ - 1]), TRUE)

AssetTimer ==
    /\ menu.assetTimers > 0
    /\ MenuApply(closeTimer([MenuStart("assetTimer", "", FALSE, FALSE)
                                EXCEPT !.assetTimers = @ - 1]), TRUE)

FooterUnmount ==
    /\ menu.mounted
    /\ MenuApply(footerUnmount(MenuStart("unmount", "", FALSE, FALSE)), TRUE)

\* touchstart on the logo: onTouchStart, then the document listener, for which
\* the logo is outside the menu
TouchStart ==
    /\ menu.mounted
    /\ \E d \in StartOffsets :
          LET m == handleTouchStart(MenuStart("touchstart", "logo", FALSE, FALSE),
                                    offsetFrom(menu, d))
          IN  MenuApply(IF "touchstart" \in menu.docListeners
                        THEN onDocPointer(m, FALSE) ELSE m, TRUE)

TouchMove ==
    /\ menu.mounted
    /\ \E k \in 1..Len(menu.touches), d \in MoveOffsets :
          /\ menu.touches[k].down
          /\ offsetFrom(menu, d) # menu.touches[k].pos
          /\ MenuApply(handleTouchMove(MenuStart("touchmove", "logo", FALSE, FALSE),
                                       k, offsetFrom(menu, d)), TRUE)

TouchEnd ==
    /\ menu.mounted
    /\ \E k \in 1..Len(menu.touches) :
          /\ menu.touches[k].down
          /\ MenuApply(handleTouchEnd(MenuStart("touchend", "logo", FALSE, FALSE), k),
                       TRUE)

\* The touches' 500 ms run out in the order in which the touches started.
LongPressElapsed ==
    \E k \in 1..Len(menu.touches) :
        /\ ~menu.touches[k].elapsed
        /\ \A j \in 1..(k - 1) : menu.touches[j].elapsed
        /\ MenuApply(longPressElapsed(MenuStart("longpress", "", FALSE, FALSE), k), TRUE)

PlaceNext ==
    \/ PlaceRightClick
    \/ EscapeKey

PlaceSpec == PlaceInit /\ [][PlaceNext]_vars

MenuNext ==
    \/ LogoRightClick
    \/ KeyDown
    \/ MouseDown
    \/ TouchStartElsewhere
    \/ FocusFrame
    \/ ClickCopy
    \/ ClickBrandAssets
    \/ CopyResume
    \/ CopyTimer
    \/ AssetTimer
    \/ FooterUnmount

MenuSpec == MenuInit /\ [][MenuNext]_vars

TouchInit ==
    /\ RendererIdle
    /\ form = NoPage
    /\ account = NoPage
    /\ signup = NoPage
    /\ dotPass = NoPass
    /\ \E vp \in MenuViewports : menu = footerIn(vp, TRUE)

TouchNext ==
    \/ TouchStart
    \/ TouchMove
    \/ TouchEnd
    \/ LongPressElapsed
    \/ FocusFrame

TouchSpec == TouchInit /\ [][TouchNext]_vars

\* --------------------------------------------- the e-mail verification page
\* BetaValidate (src/unnamed/part_007): the six one-character inputs, the paste
\* handler, handleSubmit and the effect that calls it. Strings are sequences of
\* one-character strings. A handler's state updates are applied together, the
\* page is rendered and the effect of [code, isSubmitting] is run before the next
\* event is handled.
CodeLength == 6
Digits == {"0", "1", "2", "3", "4", "5", "6", "7", "8", "9"}
IncompleteCodeError == "Please enter the complete 6-digit code."

\* What an input may report as e.target.value in a change event (a typed digit,
\* a deletion, a letter, and two characters where maxLength was not enforced), and
\* the texts that may be pasted.
RawValues == {<<>>, <<"9">>, <<"x">>, <<"x", "9">>, <<"9", "9">>}
PasteTexts ==
    {<<>>, <<"a", "b">>, <<"1", "2">>, <<"a", "1", "b", "2", "c">>,
     <<"1", "2", "3", "4", "5", "6">>, <<"1", "2", "3", "4", "5", "6", "7">>,
     <<"9", "8", "-", "7", "6", "-", "5", "4">>}

\* value.replace(/\D/g, "")
stripNonDigits(str) == SelectSeq(str, LAMBDA c : c \in Digits)

\* str.slice(0, n)
slice(str, n) == SubSeq(str, 1, Min(n, Len(str)))

RECURSIVE joinFrom(_, _)
joinFrom(code, i) == IF i > Len(code) THEN <<>> ELSE code[i] \o joinFrom(code, i + 1)

\* code.join("")
join(code) == joinFrom(code, 1)

\* newCode.findIndex(digit => !digit), counted from 0; -1 when there is none
findEmpty(code) ==
    IF \E i \in 1..Len(code) : code[i] = <<>>
    THEN (CHOOSE i \in 1..Len(code) :
              code[i] = <<>> /\ \A j \in 1..(i - 1) : code[j] # <<>>) - 1
    ELSE 0 - 1

\* What one event did: the event, the text pasted, whether setCode was called,
\* and the calls of router.push.
NoFormEvent == [input |-> "none", text |-> <<>>, codeSet |-> FALSE, pushes |-> 0]

\* The page after its first render and its mount effect, which focuses the
\* first input. focus is the index of the focused input, -1 for none.
pageMounted ==
    [mounted |-> TRUE, code |-> [i \in 1..CodeLength |-> <<>>],
     isSubmitting |-> FALSE, error |-> "", focus |-> 0, pushed |-> FALSE,
     ev |-> NoFormEvent]

\* inputRefs.current[index]?.focus(): a disabled input does not take the focus
focusInput(s, index) == IF s.isSubmitting THEN s ELSE [s EXCEPT !.focus = index]

handleInputChange(s, index, value) ==
    IF Len(value) > 1 THEN s
    ELSE LET s1 == [s EXCEPT !.code[index + 1] = value, !.ev.codeSet = TRUE,
                             !.error = ""]
         IN  IF value # <<>> /\ index < 5 THEN focusInput(s1, index + 1) ELSE s1

\* onChange={(e) => handleInputChange(index, e.target.value.replace(/\D/g, ""))}
onChange(s, index, raw) == handleInputChange(s, index, stripNonDigits(raw))

handleKeyDown(s, index, key) ==
    IF key = "Backspace" /\ s.code[index + 1] = <<>> /\ index > 0
    THEN focusInput(s, index - 1)
    ELSE s

\* The first pastedData.length fields are overwritten, the others are kept.
handlePaste(s, text) ==
    LET pastedData == slice(stripNonDigits(text), 6)
        newCode == [i \in 1..CodeLength |->
                       IF i <= Len(pastedData) THEN <<pastedData[i]>> ELSE s.code[i]]
        nextEmptyIndex == findEmpty(newCode)
        focusIndex == IF nextEmptyIndex = 0 - 1 THEN 5 ELSE Min(nextEmptyIndex, 5)
    IN  focusInput([s EXCEPT !.code = newCode, !.ev.codeSet = TRUE], focusIndex)

\* Mutant of handleSubmit: the length of the code is not tested.
handleSubmit_noLengthTest(s) ==
    [s EXCEPT !.isSubmitting = FALSE, !.error = "", !.pushed = TRUE,
              !.ev.pushes = @ + 1]

\* The function has no await: setIsSubmitting(true), setError(""), router.push
\* and the finally block's setIsSubmitting(false) run in one go.
handleSubmit(s) ==
    IF Len(join(s.code)) # 6
    THEN [s EXCEPT !.error = IncompleteCodeError]
    ELSE [s EXCEPT !.isSubmitting = FALSE, !.error = "", !.pushed = TRUE,
                   !.ev.pushes = @ + 1]

\* useEffect(..., [code, isSubmitting]) after a render: it runs when setCode stored
\* a new array or isSubmitting changed.
autoSubmit(old, s) ==
    IF (s.ev.codeSet \/ s.isSubmitting # old.isSubmitting)
       /\ Len(join(s.code)) = 6 /\ ~s.isSubmitting
    THEN handleSubmit(s)
    ELSE s

FormStart(input, text) ==
    [form EXCEPT !.ev = [NoFormEvent EXCEPT !.input = input, !.text = text]]

FormApply(s) ==
    /\ form' = autoSubmit(form, s)
    /\ UNCHANGED <<env, renderer, dotPass, menu, account, signup>>

FormInit ==
    /\ RendererIdle
    /\ dotPass = NoPass
    /\ menu = NoFooter
    /\ account = NoPage
    /\ signup = NoPage
    /\ form = pageMounted

\* The focused input reports a new value.
InputChange ==
    /\ form.mounted /\ form.focus >= 0
    /\ \E raw \in RawValues :
          /\ raw # form.code[form.focus + 1]
          /\ FormApply(onChange(FormStart("change", <<>>), form.focus, raw))

\* Backspace in the focused input: the keydown handler; the deletion itself is a
\* change event.
BackspaceKey ==
    /\ form.mounted /\ form.focus >= 0
    /\ FormApply(handleKeyDown(FormStart("keydown", <<>>), form.focus, "Backspace"))

Paste ==
    /\ form.mounted /\ form.focus >= 0
    /\ \E text \in PasteTexts : FormApply(handlePaste(FormStart("paste", text), text))

\* The user puts the focus on an input, or takes it away.
FocusChange ==
    /\ form.mounted
    /\ \E i \in ((0 - 1)..5) \ {form.focus} :
          FormApply([FormStart("focus", <<>>) EXCEPT !.focus = i])

\* The navigation requested by router.push replaces the page.
LeavePage ==
    /\ form.mounted /\ form.pushed
    /\ FormApply([FormStart("leave", <<>>) EXCEPT !.mounted = FALSE, !.focus = 0 - 1])

\* The back button: router.back().
GoBack ==
    /\ form.mounted
    /\ FormApply([FormStart("back", <<>>) EXCEPT !.mounted = FALSE, !.focus = 0 - 1])

FormNext ==
    \/ InputChange
    \/ BackspaceKey
    \/ Paste
    \/ FocusChange
    \/ LeavePage
    \/ GoBack

FormSpec == FormInit /\ [][FormNext]_vars

\* ------------------------------------------------- the set-password page
\* SetPassword (src/unnamed/part_007): the password input, the Continue button
\* rendered in place of the requirements text, and handleSubmit, which waits
\* 1500 ms before it navigates. Strings are sequences of one-character strings.
MinPasswordLength == 8
MaxPassword == 8
UpperCase ==
    {"A", "B", "C", "D", "E", "F", "G", "H", "I", "J", "K", "L", "M",
     "N", "O", "P", "Q", "R", "S", "T", "U", "V", "W", "X", "Y", "Z"}
LowerCase ==
    {"a", "b", "c", "d", "e", "f", "g", "h", "i", "j", "k", "l", "m",
     "n", "o", "p", "q", "r", "s", "t", "u", "v", "w", "x", "y", "z"}
PasswordRequirementsError == "Please ensure your password meets all requirements."

\* The characters passwords are typed from, and the passwords: up to
\* MaxPassword characters repeating the characters of one subset in this order.
PasswordChars == <<"A", "a", "1", "!", " ">>
Passwords ==
    {<<>>} \cup
    {[i \in 1..n |-> pat[((i - 1) % Len(pat)) + 1]] :
        n \in 1..MaxPassword,
        pat \in {SelectSeq(PasswordChars, LAMBDA c : c \in cs) :
                    cs \in (SUBSET {PasswordChars[k] : k \in 1..Len(PasswordChars)}) \ {{}}}}

\* regex.test(pwd) for a character class
testClass(pwd, class) == \E i \in 1..Len(pwd) : pwd[i] \in class

\* Mutant of validatePassword: the length must exceed the minimum.
validatePassword_longer(pwd) ==
    [minLength |-> Len(pwd) > MinPasswordLength,
     hasUppercase |-> testClass(pwd, UpperCase),
     hasLowercase |-> testClass(pwd, LowerCase),
     hasDigit |-> testClass(pwd, Digits),
     hasSymbol |-> \E i \in 1..Len(pwd) : pwd[i] \notin UpperCase \cup LowerCase \cup Digits]

validatePassword(pwd) ==
    [minLength |-> Len(pwd) >= MinPasswordLength,
     hasUppercase |-> testClass(pwd, UpperCase),
     hasLowercase |-> testClass(pwd, LowerCase),
     hasDigit |-> testClass(pwd, Digits),
     hasSymbol |-> \E i \in 1..Len(pwd) : pwd[i] \notin UpperCase \cup LowerCase \cup Digits]

\* Object.values(requirements).every(Boolean)
isValidPassword(pwd) ==
    LET requirements == validatePassword(pwd)
    IN  \A k \in DOMAIN requirements : requirements[k]

\* What one event did: the event and the calls of router.push.
NoAccountEvent == [input |-> "none", pushes |-> 0]

\* The page after its first render. waiting counts the calls of handleSubmit
\* that are in their 1500 ms wait.
accountMounted ==
    [mounted |-> TRUE, password |-> <<>>, isSubmitting |-> FALSE, error |-> "",
     waiting |-> 0, pushed |-> FALSE, ev |-> NoAccountEvent]

\* The form shows the Continue button in place of the requirements text.
continueOffered(s) == isValidPassword(s.password)

\* The form can be submitted: by the Continue button unless it is disabled, or,
\* when there is no button, by Enter in the one input, which is `required`.
canSubmit(s) ==
    IF continueOffered(s) THEN ~s.isSubmitting ELSE s.password # <<>>

handlePasswordChange(s, value) == [s EXCEPT !.password = value, !.error = ""]

\* handleSubmit up to its await
handleSubmitPassword(s) ==
    IF ~isValidPassword(s.password)
    THEN [s EXCEPT !.error = PasswordRequirementsError]
    ELSE [s EXCEPT !.isSubmitting = TRUE, !.error = "", !.waiting = @ + 1]

\* handleSubmit after the await: router.push, then the finally block. The state
\* updates of a page that has been left are dropped.
submitResume(s) ==
    LET s1 == [s EXCEPT !.waiting = @ - 1, !.pushed = TRUE, !.ev.pushes = @ + 1]
    IN  IF s.mounted THEN [s1 EXCEPT !.isSubmitting = FALSE] ELSE s1

AccountStart(input) == [account EXCEPT !.ev = [NoAccountEvent EXCEPT !.input = input]]

AccountApply(s) ==
    /\ account' = s
    /\ UNCHANGED <<env, renderer, dotPass, menu, form, signup>>

AccountInit ==
    /\ RendererIdle
    /\ dotPass = NoPass
    /\ menu = NoFooter
    /\ form = NoPage
    /\ signup = NoPage
    /\ account = accountMounted

PasswordChange ==
    /\ account.mounted
    /\ \E value \in Passwords \ {account.password} :
          AccountApply(handlePasswordChange(AccountStart("change"), value))

SubmitPassword ==
    /\ account.mounted /\ canSubmit(account)
    /\ AccountApply(handleSubmitPassword(AccountStart("submit")))

SubmitResume ==
    /\ account.waiting > 0
    /\ AccountApply(submitResume(AccountStart("resume")))

\* The back button, or the navigation requested by router.push, replaces the page.
LeaveAccount ==
    /\ account.mounted
    /\ \E input \in {"back"} \cup (IF account.pushed THEN {"leave"} ELSE {}) :
          AccountApply([AccountStart(input) EXCEPT !.mounted = FALSE])

AccountNext ==
    \/ PasswordChange
    \/ SubmitPassword
    \/ SubmitResume
    \/ LeaveAccount

AccountSpec == AccountInit /\ [][AccountNext]_vars

\* ------------------------------------------------------ the signup page
\* BetaSignup (src/app/beta/page.tsx): the e-mail input, isValidEmail and the
\* Continue button rendered in place of the help text. The address is typed
\* and deleted one character at a time.
MaxEmail == 6
MinTldLength == 2
EmailChars == {"a", "@", "."}

\* str.split(sep): the pieces between the separators, at least one piece
RECURSIVE split(_, _)
split(str, sep) ==
    IF \E i \in 1..Len(str) : str[i] = sep
    THEN LET i == CHOOSE k \in 1..Len(str) :
                      str[k] = sep /\ \A j \in 1..(k - 1) : str[j] # sep
         IN  <<SubSeq(str, 1, i - 1)>> \o split(SubSeq(str, i + 1, Len(str)), sep)
    ELSE <<str>>

\* str.includes(c)
includes(str, c) == \E i \in 1..Len(str) : str[i] = c

\* array.pop(): the last element
pop(array) == array[Len(array)]

\* str.trim()
RECURSIVE trim(_)
trim(str) ==
    IF str # <<>> /\ str[1] = " " THEN trim(Tail(str))
    ELSE IF str # <<>> /\ str[Len(str)] = " " THEN trim(SubSeq(str, 1, Len(str) - 1))
    ELSE str

isValidEmail(email) ==
    LET emailParts == split(email, "@")
        domain == pop(split(emailParts[2], "."))
    IN  /\ Len(emailParts) = 2
        /\ includes(emailParts[2], ".")
        /\ domain # <<>> /\ Len(domain) >= MinTldLength

\* The browser's test of an <input type="email" required>: a non-empty local
\* part, one "@", and a domain of non-empty labels separated by single dots.
browserAccepts(email) ==
    LET parts == split(email, "@")
    IN  /\ Len(parts) = 2
        /\ parts[1] # <<>>
        /\ \A label \in {split(parts[2], ".")[k] : k \in 1..Len(split(parts[2], "."))} :
               label # <<>>

NoSignupEvent == [input |-> "none", pushes |-> 0]

signupMounted ==
    [mounted |-> TRUE, email |-> <<>>, isSubmitting |-> FALSE, pushed |-> FALSE,
     ev |-> NoSignupEvent]

\* The form shows the Continue button in place of the help text.
continueShown(s) == isValidEmail(s.email)

\* The function has no await: setIsSubmitting(true), router.push and the
\* finally block's setIsSubmitting(false) run in one go.
handleSubmitEmail(s) ==
    IF trim(s.email) = <<>> THEN s
    ELSE [s EXCEPT !.isSubmitting = FALSE, !.pushed = TRUE, !.ev.pushes = @ + 1]

SignupStart(input) == [signup EXCEPT !.ev = [NoSignupEvent EXCEPT !.input = input]]

SignupApply(s) ==
    /\ signup' = s
    /\ UNCHANGED <<env, renderer, dotPass, menu, form, account>>

SignupInit ==
    /\ RendererIdle
    /\ dotPass = NoPass
    /\ menu = NoFooter
    /\ form = NoPage
    /\ account = NoPage
    /\ signup = signupMounted

\* handleInputChange: a character is typed at the end of the address.
TypeEmail ==
    /\ signup.mounted /\ Len(signup.email) < MaxEmail
    /\ \E c \in EmailChars :
          SignupApply([SignupStart("change") EXCEPT !.email = Append(@, c)])

\* handleInputChange: the last character is deleted.
DeleteEmail ==
    /\ signup.mounted /\ signup.email # <<>>
    /\ SignupApply([SignupStart("change") EXCEPT
                       !.email = SubSeq(@, 1, Len(@) - 1)])

\* The form is submitted, by the Continue button or by Enter in the input; the
\* browser submits only an address it accepts.
SubmitEmail ==
    /\ signup.mounted /\ browserAccepts(signup.email)
    /\ continueShown(signup) => ~signup.isSubmitting
    /\ SignupApply(handleSubmitEmail(SignupStart("submit")))

\* The navigation requested by router.push replaces the page.
LeaveSignup ==
    /\ signup.mounted /\ signup.pushed
    /\ SignupApply([SignupStart("leave") EXCEPT !.mounted = FALSE])

SignupNext ==
    \/ TypeEmail
    \/ DeleteEmail
    \/ SubmitEmail
    \/ LeaveSignup

SignupSpec == SignupInit /\ [][SignupNext]_vars

\* ----------------------------------------------------------------- claims

\* C1: after the component is unmounted no task performs a canvas draw operation
\* (drawImage, fillRect, arc/fill): a draw that still runs takes the skip branch.
C1_NoDrawOpsAfterUnmount == phase = "unmounted" => last.ops = 0 /\ ~last.sampled

\* The loop was active, the component is unmounted, and draw ran once more.
C1_Witness == phase = "unmounted" /\ sampledEver /\ last.draws = 1

\* C2: after unmount no listener registered by the component remains and the
\* heartbeat interval is cleared, whatever the state at unmount.
C2_NoListenersAfterUnmount ==
    phase = "unmounted" => listeners = {} /\ heartbeatInterval = 0

\* C3: once the cleanup has run, draw never again schedules itself through
\* requestAnimationFrame or requestVideoFrameCallback.
C3_LoopNotRearmedAfterUnmount == phase = "unmounted" => last.sched = 0

\* C4: whenever draw reaches the sampling step, the canvas width and height equal
\* the video's videoWidth and videoHeight, unknown (0) dimensions included.
C4_SampleDimsMatch == last.sampled => last.dimsOK

\* C5: under reduced motion no video element is created, no play attempt is made,
\* no listener or timer is registered, draw is never invoked, and ready is true
\* as soon as the effect has run.
C5_ReducedMotionSkipsRenderer ==
    prefersReduced =>
        /\ videoRef = NULL /\ ~v_inDOM /\ v_src = ""
        /\ plays = <<>> /\ last.plays = 0
        /\ listeners = {} /\ heartbeatInterval = 0 /\ timeouts = 0
        /\ ~drawEver /\ rafQueue = 0 /\ rvfcQueue = 0 /\ last.draws = 0
        /\ (phase # "rendered" => ready)

\* Reduced motion is preferred and the effect has run.
C5_Witness == prefersReduced /\ phase = "mounted" /\ ready

\* C6: a pointerdown that reaches kick causes exactly one play() call, and once a
\* retry has succeeded none of the retry listeners (pointerdown, keydown, wheel,
\* touchstart, visibilitychange) is registered, so no later event retries.
C6_RetryOnceThenDetached ==
    /\ last.kicks = 1 => last.plays = 1
    /\ retrySucceeded => listeners \cap RetryListeners = {}

\* The initial attempt was rejected, a kick retried (onVisibleTry never did), the
\* retry succeeded and the listeners are gone.
C6_Witness ==
    /\ phase = "mounted" /\ retrySucceeded /\ ~visibleTried
    /\ listeners \cap RetryListeners = {}

\* C7: when the media cannot be fetched or decoded, the component performs no draw
\* call and ends in the static state (ready), not in the hidden loading state.
C7_MediaFailureShowsStatic ==
    (~prefersReduced /\ phase = "mounted" /\ v_error /\ plays = <<>>)
        => (ready /\ ~drawEver)

\* What the code does instead (C7): with failing media ready never becomes true.
MediaFailureNeverReady == (~prefersReduced /\ ~mediaOK) => ~ready

\* C8: unless reduced motion is preferred, ready is true only after a draw has
\* completed its sampling and dot pass.
C8_ReadyOnlyAfterFirstFrame == (~prefersReduced /\ ready) => sampledEver

\* The component became visible through a successful play attempt.
C8_Witness == ~prefersReduced /\ phase = "mounted" /\ ready /\ sampledEver

\* C9: a draw that finds the video paused, ended or without frame data does no
\* canvas operation, does not sample, and schedules exactly one next tick.
C9_SkipsWithoutFrames ==
    (last.draws >= 1 /\ (last.pausedOrEnded \/ last.noFrames))
        => (last.ops = 0 /\ ~last.sampled /\ last.sched = 1)

\* C10: on iOS the heartbeat has a period of 1000 ms and elsewhere there is no
\* timer; a tick more than 3000 ms after the previous one sets currentTime to 0
\* and calls play(); a tick after at most 3000 ms leaves playback untouched; every
\* tick moves the reference time to the tick.
C10_Heartbeat ==
    /\ [](~isIOS => heartbeatInterval = 0)
    /\ []((isIOS /\ ~prefersReduced /\ phase = "mounted") => heartbeatInterval = 1000)
    /\ [][last'.gap # 0 =>
             /\ lastTime' = 0
             /\ last'.gap > 3000 => (v_currentTime' = 0 /\ last'.plays = 1)
             /\ last'.gap <= 3000 =>
                    /\ last'.plays = 0 /\ last'.draws = 0
                    /\ v_currentTime' = v_currentTime /\ v_paused' = v_paused]_vars

\* A tick found a gap of more than 3000 ms and restarted playback.
C10_Witness ==
    isIOS /\ last.gap > 3000 /\ last.plays = 1 /\ v_currentTime = 0 /\ ~v_paused

\* C11: when the video's intrinsic dimensions have changed during playback to a
\* new size W' x H', the sampling pass of the next draw reads its pixels from a
\* canvas that is exactly W' x H'.
C11_ResizedBeforeSampling ==
    (last.sampled /\ v_videoWidth # 0 /\ v_videoHeight # 0) =>
        (canvas_width = v_videoWidth /\ canvas_height = v_videoHeight)

\* A draw that found the canvas at the previous video size, resized it and sampled.
C11_Witness ==
    /\ last.sampled /\ last.resized
    /\ <<canvas_width, canvas_height>> = <<v_videoWidth, v_videoHeight>>
    /\ <<canvas_width, canvas_height>> \in VideoSizes


\* The sample points of a W x H canvas with step G: the multiples of G from (0, 0).
SamplePoints(W, H, G) ==
    {<<x, y>> \in (0..(W - 1)) \X (0..(H - 1)) : x % G = 0 /\ y % G = 0}

\* ceil(a / b) for positive integers
CeilDiv(a, b) == (a + b - 1) \div b

\* C12: a black pixel gets the full radius G / 2.5, which is more than 0.5 for
\* every step G >= 2, and its dot is drawn with that radius; a white pixel gets
\* radius 0 and no dot.
C12_BlackFullWhiteNone ==
    /\ dotPass.pc # "idle" /\ dotPass.px = Black =>
          /\ 5 * dotPass.rNum = 2 * dotPass.G * RadiusDen
          /\ 2 * dotPass.rNum > RadiusDen
          /\ dotPass.arc = <<dotPass.visited[Len(dotPass.visited)][1],
                             dotPass.visited[Len(dotPass.visited)][2], dotPass.rNum>>
    /\ dotPass.pc # "idle" /\ dotPass.px = White =>
          /\ dotPass.rNum = 0
          /\ dotPass.arc = <<>>

\* A black pixel was sampled with the smallest step and its dot was drawn.
C12_Witness ==
    /\ dotPass.pc # "idle" /\ dotPass.px = Black
    /\ dotPass.G = 2 /\ dotPass.arc # <<>>

\* C13: with the step 4 a finished pass over a W x H canvas has visited exactly
\* ceil(W/4) * ceil(H/4) sample points, namely every (x, y) with x and y multiples
\* of 4 from (0, 0), each exactly once (16 points for 16 x 16), and every index
\* (y * W + x) * 4 it read, with the two bytes after it, lies in the W * H * 4 bytes.
C13_PassVisitsGridOnce ==
    (dotPass.pc \in {"body", "done"} /\ dotPass.G = grid) =>
        LET seen == {dotPass.visited[k] : k \in 1..Len(dotPass.visited)}
        IN  /\ seen \subseteq SamplePoints(dotPass.W, dotPass.H, grid)
            /\ Cardinality(seen) = Len(dotPass.visited)
            /\ dotPass.inside
            /\ \A q \in seen :
                  /\ bufferIndex(q[1], q[2], dotPass.W) >= 0
                  /\ bufferIndex(q[1], q[2], dotPass.W) + 2
                         < dotPass.W * dotPass.H * 4
            /\ dotPass.pc = "done" =>
                  /\ seen = SamplePoints(dotPass.W, dotPass.H, grid)
                  /\ Len(dotPass.visited)
                         = CeilDiv(dotPass.W, 4) * CeilDiv(dotPass.H, 4)
                  /\ (dotPass.W = 16 /\ dotPass.H = 16) => Len(dotPass.visited) = 16

\* A finished pass over a 16 x 16 canvas with step 4.
C13_Witness ==
    /\ dotPass.pc = "done" /\ dotPass.G = grid
    /\ dotPass.W = 16 /\ dotPass.H = 16 /\ Len(dotPass.visited) = 16


C15_CloseBehaviour ==
    /\ [](menu.mounted =>
             menu.docListeners = (IF menu.showMenu THEN DocListeners ELSE {}))
    /\ [][(menu.mounted /\ menu.showMenu /\ menu'.ev.input = "keydown"
             /\ menu'.ev.key = "Escape") => ~menu'.showMenu]_vars
    /\ [][(menu.mounted /\ menu.showMenu
             /\ menu'.ev.input \in {"mousedown", "touchstart"})
             => (menu'.showMenu <=> menu'.ev.inside)]_vars
    /\ [][(menu.mounted /\ menu'.mounted /\ menu'.ev.closes > 0) =>
             /\ ~menu'.showMenu /\ menu'.pending = NULL
             /\ menu'.focus = "trigger"]_vars

\* Escape has closed a menu whose download was pending.
C15_Witness ==
    /\ menu.mounted /\ menu.ev.input = "keydown" /\ menu.ev.key = "Escape"
    /\ menu.ev.closes = 1 /\ menu.assetTimers = 1
    /\ ~menu.showMenu /\ menu.pending = NULL /\ menu.focus = "trigger"
    /\ menu.docListeners = {}

\* C16: while the menu is open, ArrowDown and ArrowUp move the focus to the next
\* and the previous item with wraparound, Home and End to the first and the last,
\* Tab on the last item to the first and Shift+Tab on the first to the last, and
\* after each of these keys the focus is on one of the two items.
C16_FocusTrapped ==
    [][(menu.mounted /\ menu.showMenu /\ menu'.ev.input = "keydown"
          /\ menu'.ev.key \in NavKeys) =>
          /\ menu'.focus \in {"first", "last"}
          /\ (menu'.ev.key = "Home") => menu'.focus = "first"
          /\ (menu'.ev.key = "End") => menu'.focus = "last"
          /\ (menu'.ev.key \in {"ArrowDown", "ArrowUp"} /\ menu.focus = "first")
                => menu'.focus = "last"
          /\ (menu'.ev.key \in {"ArrowDown", "ArrowUp"} /\ menu.focus = "last")
                => menu'.focus = "first"
          /\ (menu'.ev.key = "Tab" /\ ~menu'.ev.shift /\ menu.focus = "last")
                => menu'.focus = "first"
          /\ (menu'.ev.key = "Tab" /\ menu'.ev.shift /\ menu.focus = "first")
                => menu'.focus = "last"]_vars

\* C17: a touch's long-press timer is not pending once the finger has left or
\* has moved more than 10 px from where the touch started; when 500 ms have
\* passed since a touch started, it has opened the menu exactly if the finger
\* was still down and had not moved that far; and the menu it opens is placed
\* from the point where that touch started.
C17_LongPress ==
    \A k \in 1..Len(menu.touches) :
        LET t == menu.touches[k]
        IN  /\ (~t.down \/ t.moved) => t.timer # "pending"
            /\ t.opened => t.elapsed
            /\ t.elapsed => (t.opened <=> t.held)
            /\ t.opened => t.at = t.start

\* C18: no error leaves handleCopyLogoAsSVG; copySVGToClipboard tries the
\* ClipboardItem write first where the API exists, tries writeText exactly when
\* that write was not possible or failed, and throws exactly when writeText
\* failed too; every call of the handler ends by arming the 900 ms timer, and
\* when that timer fires the menu is closed with pending null.
C18_CopyNeverThrows ==
    /\ [](~menu.ev.escaped)
    /\ [](menu.ev.copy.done =>
             LET c == menu.ev.copy
             IN  /\ c.tried = (IF menu.clipboardItem
                               THEN IF "write" \in c.failed
                                    THEN <<"write", "writeText">> ELSE <<"write">>
                               ELSE <<"writeText">>)
                 /\ c.threw <=> "writeText" \in c.failed
                 /\ c.threw => c.failed = {c.tried[k] : k \in 1..Len(c.tried)})
    /\ [][Len(menu'.copies) < Len(menu.copies) =>
             menu'.copyTimers = menu.copyTimers + 1]_vars
    /\ []((menu.mounted /\ menu.ev.input = "copyTimer") =>
             (~menu.showMenu /\ menu.pending = NULL))

\* Both clipboard writes failed, copySVGToClipboard threw, and the handler is in
\* its catch block.
C18_Witness ==
    /\ menu.ev.copy.done /\ menu.ev.copy.threw
    /\ menu.ev.copy.tried = <<"write", "writeText">>
    /\ Len(menu.copies) = 1 /\ menu.copies[1].stage = "fallback"
    /\ ~menu.ev.escaped

\* All six fields of the page hold a digit.
CodeComplete(s) == \A i \in 1..CodeLength : s.code[i] # <<>>

\* C19: on the verification page every field always holds "" or exactly one
\* digit; handleSubmit called with fewer than six digits sets the error
\* 'Please enter the complete 6-digit code.' and does not navigate; router.push
\* is called exactly once, by the effect, in the event that fills the last empty
\* field, and in no other event: not while a field is empty, and not again
\* while the six fields stay filled.
C19_AutoSubmitOnce ==
    /\ [](form.mounted =>
            /\ \A i \in 1..CodeLength :
                   form.code[i] = <<>> \/ \E d \in Digits : form.code[i] = <<d>>
            /\ ~CodeComplete(form) =>
                   /\ form.ev.pushes = 0
                   /\ handleSubmit(form).error = IncompleteCodeError
                   /\ handleSubmit(form).ev.pushes = 0
                   /\ handleSubmit(form).code = form.code)
    /\ [][(form.mounted /\ form'.mounted) =>
            form'.ev.pushes =
                IF ~CodeComplete(form) /\ CodeComplete(form') THEN 1 ELSE 0]_vars

\* The digits of a text, at most six of them.
PastedDigits(text) ==
    LET ds == SelectSeq(text, LAMBDA c : c \in Digits)
    IN  IF Len(ds) > CodeLength THEN SubSeq(ds, 1, CodeLength) ELSE ds

\* C20: after a paste the code is the first up-to-six digits of the text: six
\* digits fill fields 0..5 and are submitted, fewer than six are the whole
\* contents of the code; the focus is on the first empty field, or on the last
\* field when none is empty.
C20_PasteFillsCode ==
    (form.mounted /\ form.ev.input = "paste") =>
        LET ds == PastedDigits(form.ev.text)
            empty == {i \in 1..CodeLength : form.code[i] = <<>>}
        IN  /\ Len(ds) = CodeLength =>
                   /\ form.code = [i \in 1..CodeLength |-> <<ds[i]>>]
                   /\ form.ev.pushes = 1
            /\ Len(ds) < CodeLength => join(form.code) = ds
            /\ form.focus = IF empty = {} THEN 5
                            ELSE (CHOOSE i \in empty : \A j \in empty : i <= j) - 1

\* The password has at least eight characters and contains an uppercase letter
\* (A-Z), a lowercase letter (a-z), a digit (0-9) and a symbol (any other
\* character).
MeetsRequirements(pwd) ==
    /\ Len(pwd) >= 8
    /\ \E i \in 1..Len(pwd) : pwd[i] \in UpperCase
    /\ \E i \in 1..Len(pwd) : pwd[i] \in LowerCase
    /\ \E i \in 1..Len(pwd) : pwd[i] \in Digits
    /\ \E i \in 1..Len(pwd) : pwd[i] \notin (UpperCase \cup LowerCase \cup Digits)

\* C21 as stated: on the set-password page a password is accepted, and the
\* Continue button offered, exactly when the password has at least 8 characters
\* and contains an uppercase letter, a lowercase letter, a digit and a symbol;
\* after any other password is submitted the error message is set, isSubmitting
\* is false and router.push has not been called; after an accepted password is
\* submitted router.push is called once, when the wait is over, and isSubmitting
\* is false from then on.
C21_PasswordAccepted ==
    /\ [](account.mounted =>
            /\ isValidPassword(account.password) <=> MeetsRequirements(account.password)
            /\ continueOffered(account) <=> MeetsRequirements(account.password))
    /\ [][(account'.mounted /\ account'.ev.input = "submit"
              /\ ~MeetsRequirements(account.password)) =>
            /\ account'.error = PasswordRequirementsError
            /\ ~account'.isSubmitting
            /\ account'.ev.pushes = 0]_vars
    /\ [][(account'.mounted /\ account'.ev.input = "resume") =>
            account'.ev.pushes = 1 /\ ~account'.isSubmitting]_vars

\* C21, amended: as above, but a password that is not accepted leaves
\* isSubmitting as it was, which is false unless an earlier, accepted submission
\* is still in its wait; the submission itself never sets isSubmitting and
\* starts no wait. An accepted submission sets isSubmitting and starts one
\* wait; router.push is called once when a wait is over and in no other event.
C21_PasswordChecked ==
    /\ [](account.mounted =>
            /\ isValidPassword(account.password) <=> MeetsRequirements(account.password)
            /\ continueOffered(account) <=> MeetsRequirements(account.password)
            /\ account.waiting = 0 => ~account.isSubmitting)
    /\ [][(account'.mounted /\ account'.ev.input = "submit") =>
            IF MeetsRequirements(account.password)
            THEN /\ account'.isSubmitting /\ account'.error = ""
                 /\ account'.waiting = account.waiting + 1
                 /\ account'.ev.pushes = 0
            ELSE /\ account'.error = PasswordRequirementsError
                 /\ account'.isSubmitting = account.isSubmitting
                 /\ account'.waiting = account.waiting
                 /\ account'.ev.pushes = 0]_vars
    /\ [][account'.ev.pushes =
            IF account'.ev.input = "resume" THEN 1 ELSE 0]_vars
    /\ [][(account'.mounted /\ account'.ev.input = "resume") =>
            ~account'.isSubmitting]_vars

\* An accepted password has been submitted, the wait is over and the page has
\* navigated; isSubmitting is false again.
C21_Witness ==
    /\ account.mounted /\ account.ev.input = "resume" /\ account.ev.pushes = 1
    /\ MeetsRequirements(account.password) /\ Len(account.password) = 8
    /\ ~account.isSubmitting

\* The address has the form text@domain.tld: one "@", a non-empty local part
\* before it, and after it a non-empty domain name, a "." and a final label of
\* at least two characters.
BasicForm(email) ==
    LET n == Len(email)
        ats == {i \in 1..n : email[i] = "@"}
    IN  /\ Cardinality(ats) = 1
        /\ LET at == CHOOSE i \in ats : TRUE
                dots == {i \in (at + 1)..n : email[i] = "."}
            IN  /\ at > 1
                /\ dots # {}
                /\ LET dot == CHOOSE i \in dots : \A j \in dots : j <= i
                   IN  dot > at + 1 /\ n - dot >= 2

\* C22: on the signup page isValidEmail is true exactly for addresses of the
\* form text@domain.tld, and the Continue button is shown if and only if
\* isValidEmail is true.
C22_ValidEmail ==
    signup.mounted =>
        /\ isValidEmail(signup.email) <=> BasicForm(signup.email)
        /\ continueShown(signup) <=> isValidEmail(signup.email)

\* C23: after an autoplay rejection every interaction event that reaches kick,
\* and every change of the document to visible that reaches onVisibleTry, makes
\* exactly one play() call; the retry listeners stay registered, all of them,
\* until a retry succeeds; once a retry has succeeded none of them is
\* registered; and the task in which the first retry succeeds calls draw
\* exactly once, however many retries were waiting.
C23_RetryStartsLoopOnce ==
    /\ [](last.kicks = 1 => last.plays = 1)
    /\ [](retrySucceeded => listeners \cap RetryListeners = {})
    /\ [][(OnVisibleTryListener \in listeners /\ docHidden /\ ~docHidden')
              => last'.plays = 1]_vars
    /\ [][(listeners \cap RetryListeners # {} /\ ~retrySucceeded')
              => RetryListeners \subseteq listeners']_vars
    /\ [][(~retrySucceeded /\ retrySucceeded') => last'.draws = 1]_vars

\* C24: every call of draw schedules exactly one callback: after a sampling
\* pass through requestVideoFrameCallback when the platform has it and through
\* requestAnimationFrame otherwise, after a skipped tick through
\* requestAnimationFrame.
C24_OneCallbackPerIteration ==
    /\ last.sched = last.draws
    /\ last.draws > 0 =>
           last.via = IF last.sampled /\ hasRVFC THEN "rvfc" ELSE "raf"

\* A frame callback of the video ran draw, which sampled and scheduled the next
\* frame callback.
C24_Witness ==
    /\ hasRVFC /\ last.draws = 1 /\ last.sampled /\ last.sched = 1
    /\ last.via = "rvfc" /\ rvfcQueue = 1

\* C25: in a sampling pass no cell is sampled twice, so each cell gives at most
\* one dot; the dot is drawn, at the cell's sample point, exactly when
\* r = (1 - avg/255) * (G/2.5) > 0.5, which in whole numbers is
\* 4 * G * (765 - (R+G+B)) > 3825, and for G = 4 exactly when R+G+B <= 525;
\* the radius is at most G/2.5, which is less than G/2; and a dot of the largest
\* radius at any other sample point would not reach this dot.
C25_DotPerCellNoOverlap ==
    (dotPass.pc \in {"body", "done"} /\ dotPass.visited # <<>>) =>
        LET G == dotPass.G
            c == dotPass.visited[Len(dotPass.visited)]
            sum == dotPass.px[1] + dotPass.px[2] + dotPass.px[3]
            drawn == dotPass.arc # <<>>
        IN  /\ \A k \in 1..(Len(dotPass.visited) - 1) : dotPass.visited[k] # c
            /\ c \in SamplePoints(dotPass.W, dotPass.H, G)
            /\ drawn <=> 4 * G * (765 - sum) > 3825
            /\ G = 4 => (drawn <=> sum <= 525)
            /\ drawn => dotPass.arc = <<c[1], c[2], dotPass.rNum>>
            /\ 5 * dotPass.rNum <= 2 * G * RadiusDen
            /\ 2 * dotPass.rNum < G * RadiusDen
            /\ \A q \in SamplePoints(dotPass.W, dotPass.H, G) \ {c} :
                   5 * (Max(Abs(q[1] - c[1]), Abs(q[2] - c[2])) * RadiusDen
                          - dotPass.rNum) >= 2 * G * RadiusDen

\* With step 4 a pixel with R+G+B = 525 was sampled in a cell that has a
\* neighbour, and its dot was drawn.
C25_Witness ==
    /\ dotPass.pc \in {"body", "done"} /\ dotPass.G = 4
    /\ dotPass.px = <<175, 175, 175>> /\ dotPass.arc # <<>>
    /\ Len(dotPass.visited) > 1


====
